---- MODULE Spec2Model ----
(***************************************************************************)
(* LJClang native support layer.                                           *)
(*                                                                         *)
(*  - Visitor bridge: src/ljclang_support.c (handle table, trampoline,     *)
(*    ljclang_visitChildren) and src/ljclang_support.cpp (pointer-passing  *)
(*    ljclang_visitChildrenWith).                                          *)
(*  - ABI introspector: ljclang_getTypeDefs of src/ljposix.cpp and of      *)
(*    src/ljclang_support.cpp, and the opaque layouts of src/ljposix.cpp.  *)
(***************************************************************************)
EXTENDS Integers, Sequences, FiniteSets

(***************************************************************************)
(* Bounds of the model.                                                    *)
(***************************************************************************)
MaxVisitors == 2
NumCallbacks == 2
NumAddrs == 2
MaxSiblings == 5
MaxDepth == 3
MaxSize == 16
MaxCalls == 2

(***************************************************************************)
(* Program constants.                                                      *)
(***************************************************************************)
\* CXCursor_LastExtraDecl of <clang-c/Index.h>, named by LAST_KIND.
LAST_KIND == 603
NUM_KINDS == LAST_KIND + 1
\* CXCursor_OverloadCandidate of <clang-c/Index.h>: a cursor kind numerically
\* greater than LAST_KIND.
CXCursor_OverloadCandidate == LAST_KIND + 97

VARIABLES
    \* ---- src/ljclang_support.c: the registry
    g_cursorVisitors,   \* address of the table (NULL before the first registration)
    g_numVisitors,      \* unsigned: number of registered visitors
    heap,               \* the allocator's blocks: address -> [live, data]
    \* ---- the call in progress, or the last one completed
    pc,                 \* "idle" | "visit" | "crashed"
    op,                 \* "none" | "reg" | "visitChildren" | "visitChildrenWith"
    arg,                \* visitoridx / visitor of the call
    ret,                \* return value of the last completed call (0 while one is in progress)
    frame,              \* ljclang_visitChildrenWith's parameter <visitor> (its stack slot)
    ctx,                \* the client_data pointer handed to clang_visitChildren
    tree,               \* the tree under the cursor <parent>
    todo,               \* nodes clang_visitChildren still has to visit, in order
    wasbroken,          \* a trampoline invocation returned CXChildVisit_Break
    \* ---- history (observations of the host)
    issued,             \* successful registrations: <<[handle, visitor]>>
    log,                \* callback invocations of the current traversal
    visited,            \* nodes the native traversal handed to the trampoline
    nativeCalls,        \* calls of clang_visitChildren made by the current call
    pendingFail,        \* handle a failed registration would have returned (-1: none)
    owed,               \* pendingFail at the time of the last successful registration
    \* ---- two threads inside ljclang_visitChildrenWith (src/ljclang_support.cpp)
    thr,                \* thread -> its call: position, arguments, locals, observations
    stackMem,           \* stack slots holding the parameter <visitor> of a live call
    cblog,              \* callback -> the nodes it was invoked with: <<[tree, node]>>
    \* ---- the ABI introspector (src/ljposix.cpp, src/ljclang_support.cpp)
    platform,           \* the target: what int64_t, uint64_t and each listed type name are
    layout,             \* sizeof/alignof of sigset_t, fd_set and long int on the target
    tdBuilt,            \* provider -> the function-local static string <s> is constructed
    tdText,             \* provider -> the contents of <s>
    tdRet,              \* the last call of ljclang_getTypeDefs: provider, text, call count
    posixBuild,         \* "none" | "ok" | "failed": compilation of ljposix.cpp
    declared            \* size and alignment the host derives from the emitted structs

bridgeVars == <<g_cursorVisitors, g_numVisitors, heap, pc, op, arg, ret, frame, ctx,
                tree, todo, wasbroken, issued, log, visited, nativeCalls,
                pendingFail, owed>>

concVars == <<thr, stackMem, cblog>>

abiVars == <<platform, layout, tdBuilt, tdText, tdRet, posixBuild, declared>>

vars == <<bridgeVars, concVars, abiVars>>

NULL == 0
NoCallback == 0
Root == 0
Callbacks == 1..NumCallbacks
Addrs == 1..NumAddrs

\* enum CXChildVisitResult
CXChildVisitResult == {"Break", "Continue", "Recurse"}

\* Cursor kinds the native traversal may produce.
Kinds == {LAST_KIND, CXCursor_OverloadCandidate}

(***************************************************************************)
(* Trees: parentOf[n] is the parent of node n; Root is the cursor given to *)
(* the dispatch.  Nodes are numbered in document order.                    *)
(***************************************************************************)
\* A root with 2 children, one having 2 grandchildren.
TreeFamily == <<Root, 1, 1, Root>>
\* A root with MaxSiblings children.
TreeSiblings == [n \in 1..MaxSiblings |-> Root]
\* A chain of MaxDepth nodes.
TreeChain == [n \in 1..MaxDepth |-> n - 1]
Trees == {TreeFamily, TreeSiblings, TreeChain}

RECURSIVE ChildrenFrom(_, _, _)
ChildrenFrom(t, p, n) ==
    IF n > Len(t) THEN <<>>
    ELSE (IF t[n] = p THEN <<n>> ELSE <<>>) \o ChildrenFrom(t, p, n + 1)

Children(t, p) == ChildrenFrom(t, p, 1)

RECURSIVE IsDescendant(_, _, _)
IsDescendant(t, n, a) ==
    IF n = Root THEN FALSE
    ELSE t[n] = a \/ IsDescendant(t, t[n], a)

(***************************************************************************)
(* C integer conversions.                                                  *)
(***************************************************************************)
\* (unsigned)x >= n for an int x and an unsigned n below 2^31: a negative x
\* converts to x + 2^32, which is at least 2^31.
UnsignedGE(x, n) == IF x < 0 THEN TRUE ELSE x >= n

(***************************************************************************)
(* The allocator.                                                          *)
(***************************************************************************)
FreedBlock == [live |-> FALSE, data |-> <<>>]

Grow(data, n) == [i \in 1..n |-> IF i <= Len(data) THEN data[i] ELSE NoCallback]

\* realloc(ptr, n elements): NULL with the old block untouched, or the block
\* grown in place, or a new block holding the old contents with the old one freed.
Realloc(h, ptr, n) ==
    {[ptr |-> NULL, heap |-> h]}
    \cup (IF ptr = NULL THEN {}
          ELSE {[ptr |-> ptr, heap |-> [h EXCEPT ![ptr].data = Grow(@, n)]]})
    \cup {[ptr |-> a,
           heap |-> [b \in Addrs |->
                       IF b = a THEN [live |-> TRUE,
                                      data |-> Grow(IF ptr = NULL THEN <<>> ELSE h[ptr].data, n)]
                       ELSE IF b = ptr THEN FreedBlock
                       ELSE h[b]]]
          : a \in {b \in Addrs : ~h[b].live}}

(***************************************************************************)
(* ljclang_regCursorVisitor                                                *)
(***************************************************************************)
\* memcpy(&g_cursorVisitors[0], &cvd, szCVD)
RegStore_First(data, n, visitor) == [data EXCEPT ![1] = visitor]

\* memcpy(&g_cursorVisitors[g_numVisitors], &cvd, szCVD)
RegStore(data, n, visitor) == [data EXCEPT ![n + 1] = visitor]

\* if (newVisitors == NULL) return -1; with a lost table pointer
RegFailure_AssignsResult ==
    /\ g_cursorVisitors' = NULL
    /\ UNCHANGED <<g_numVisitors, heap>>
    /\ ret' = -1

\* if (newVisitors == NULL) return -1;
RegFailure ==
    /\ UNCHANGED <<g_cursorVisitors, g_numVisitors, heap>>
    /\ ret' = -1

ResetCall ==
    /\ frame' = NoCallback
    /\ ctx' = [kind |-> "none", addr |-> NULL, idx |-> 0]
    /\ tree' = <<>>
    /\ todo' = <<>>
    /\ wasbroken' = FALSE
    /\ log' = <<>>
    /\ visited' = <<>>
    /\ nativeCalls' = 0

\* The reallocation and the store of ljclang_regCursorVisitor.
RegBody(visitor) ==
    /\ g_numVisitors < MaxVisitors
    /\ \E out \in Realloc(heap, g_cursorVisitors, g_numVisitors + 1) :
         IF out.ptr = NULL
         THEN /\ RegFailure
              /\ pendingFail' = g_numVisitors
              /\ owed' = -1
              /\ UNCHANGED issued
         ELSE /\ g_cursorVisitors' = out.ptr
              /\ heap' = [out.heap EXCEPT
                            ![out.ptr].data = RegStore(@, g_numVisitors, visitor)]
              /\ ret' = g_numVisitors
              /\ g_numVisitors' = g_numVisitors + 1
              /\ issued' = Append(issued, [handle |-> g_numVisitors, visitor |-> visitor])
              /\ owed' = pendingFail
              /\ pendingFail' = -1

\* A call of ljclang_regCursorVisitor by the host, outside of any traversal.
ljclang_regCursorVisitor(visitor) ==
    /\ pc = "idle"
    /\ op' = "reg"
    /\ arg' = visitor
    /\ pc' = "idle"
    /\ ResetCall
    /\ RegBody(visitor)

(***************************************************************************)
(* The trampolines.                                                        *)
(***************************************************************************)
Crash == -1

\* What dereferencing client_data yields.  A pointer into a freed block, past
\* the end of the table, or to a dead stack slot is undefined behaviour: any
\* callback may be read, or the process crashes.
LoadVisitor(c) ==
    IF c.kind = "heap"
    THEN IF c.addr # NULL /\ heap[c.addr].live /\ c.idx + 1 <= Len(heap[c.addr].data)
         THEN {heap[c.addr].data[c.idx + 1]}
         ELSE Callbacks \cup {Crash}
    ELSE IF frame # NoCallback THEN {frame} ELSE Callbacks \cup {Crash}

\* ourCursorVisitor of ljclang_support.c (USE_KINDS_BITAR is not defined).
\* called: the callback invoked (NoCallback: none); result: the value returned
\* to the native traversal.
ourCursorVisitor_c(kind, visitor, hostRet) ==
    IF UnsignedGE(kind, NUM_KINDS)
    THEN [called |-> NoCallback, result |-> "Break"]
    ELSE [called |-> visitor, result |-> hostRet]

\* ourCursorVisitor of ljclang_support.cpp.
ourCursorVisitor_cpp(kind, visitor, hostRet) ==
    [called |-> visitor, result |-> hostRet]

\* return (wasbroken ? 1 : 0);
VisitResult(wb) == IF wb THEN 1 ELSE 0

(***************************************************************************)
(* The dispatch entry points.                                              *)
(***************************************************************************)
HandleInputs == {-1, 999} \cup (0..MaxVisitors)

\* if ((unsigned)visitoridx > g_numVisitors) return -1;
InvalidIndex_OffByOne(visitoridx, n) == IF visitoridx < 0 THEN TRUE ELSE visitoridx > n

\* if ((unsigned)visitoridx >= g_numVisitors) return -1;
InvalidIndex(visitoridx, n) == UnsignedGE(visitoridx, n)

\* &g_cursorVisitors[visitoridx]
EntryPointer(visitoridx) == [kind |-> "heap", addr |-> g_cursorVisitors, idx |-> visitoridx]

ljclang_visitChildren(t, visitoridx) ==
    /\ pc = "idle"
    /\ op' = "visitChildren"
    /\ arg' = visitoridx
    /\ frame' = NoCallback
    /\ tree' = t
    /\ wasbroken' = FALSE
    /\ log' = <<>>
    /\ visited' = <<>>
    /\ IF InvalidIndex(visitoridx, g_numVisitors)
       THEN /\ ret' = -1
            /\ pc' = "idle"
            /\ nativeCalls' = 0
            /\ todo' = <<>>
            /\ ctx' = [kind |-> "none", addr |-> NULL, idx |-> 0]
       ELSE /\ ret' = 0
            /\ pc' = "visit"
            /\ nativeCalls' = 1
            /\ todo' = Children(t, Root)
            /\ ctx' = EntryPointer(visitoridx)
    /\ UNCHANGED <<g_cursorVisitors, g_numVisitors, heap, issued, pendingFail, owed>>

ljclang_visitChildrenWith(t, visitor) ==
    /\ pc = "idle"
    /\ op' = "visitChildrenWith"
    /\ arg' = visitor
    /\ frame' = visitor
    /\ ctx' = [kind |-> "stack", addr |-> NULL, idx |-> 0]
    /\ tree' = t
    /\ wasbroken' = FALSE
    /\ log' = <<>>
    /\ visited' = <<>>
    /\ pc' = "visit"
    /\ nativeCalls' = 1
    /\ todo' = Children(t, Root)
    /\ ret' = 0
    /\ UNCHANGED <<g_cursorVisitors, g_numVisitors, heap, issued, pendingFail, owed>>

(***************************************************************************)
(* clang_visitChildren: the native traversal.  It hands the next node, in  *)
(* pre-order, to the trampoline; it descends on Recurse, goes on to the    *)
(* next sibling on Continue and stops on Break.                            *)
(***************************************************************************)
Trampoline(variant, kind, visitor, hostRet) ==
    IF variant = "visitChildren"
    THEN ourCursorVisitor_c(kind, visitor, hostRet)
    ELSE ourCursorVisitor_cpp(kind, visitor, hostRet)

VisitNode ==
    /\ pc = "visit"
    /\ todo # <<>>
    /\ ~wasbroken
    /\ LET n == Head(todo) IN
       \E k \in Kinds, hostRet \in CXChildVisitResult, v \in LoadVisitor(ctx) :
         IF v = Crash
         THEN /\ pc' = "crashed"
              /\ UNCHANGED <<todo, wasbroken, log, visited>>
         ELSE LET r == Trampoline(op, k, v, hostRet) IN
              /\ pc' = pc
              /\ visited' = Append(visited, n)
              /\ log' = IF r.called = NoCallback THEN log
                        ELSE Append(log, [cb |-> r.called, node |-> n,
                                          parent |-> tree[n], ret |-> hostRet])
              /\ wasbroken' = (r.result = "Break")
              /\ todo' = IF r.result = "Break" THEN <<>>
                         ELSE IF r.result = "Recurse" THEN Children(tree, n) \o Tail(todo)
                         ELSE Tail(todo)
    /\ UNCHANGED <<g_cursorVisitors, g_numVisitors, heap, op, arg, ret, frame, ctx, tree,
                   issued, nativeCalls, pendingFail, owed>>

\* clang_visitChildren returns; the dispatch returns (wasbroken ? 1 : 0).
VisitReturn ==
    /\ pc = "visit"
    /\ todo = <<>>
    /\ ret' = VisitResult(wasbroken)
    /\ pc' = "idle"
    /\ frame' = NoCallback
    /\ UNCHANGED <<g_cursorVisitors, g_numVisitors, heap, op, arg, ctx, tree, todo,
                   wasbroken, issued, log, visited, nativeCalls, pendingFail, owed>>

\* A callback invoked by a handle-based traversal calls
\* ljclang_regCursorVisitor before it returns.
ReentrantRegister(visitor) ==
    /\ pc = "visit"
    /\ op = "visitChildren"
    /\ ~wasbroken
    /\ log # <<>>
    /\ log[Len(log)].node = visited[Len(visited)]
    /\ RegBody(visitor)
    /\ UNCHANGED <<pc, op, arg, frame, ctx, tree, todo, wasbroken, log, visited, nativeCalls>>

InitBridge ==
    /\ g_cursorVisitors = NULL
    /\ g_numVisitors = 0
    /\ heap = [a \in Addrs |-> FreedBlock]
    /\ pc = "idle"
    /\ op = "none"
    /\ arg = 0
    /\ ret = 0
    /\ frame = NoCallback
    /\ ctx = [kind |-> "none", addr |-> NULL, idx |-> 0]
    /\ tree = <<>>
    /\ todo = <<>>
    /\ wasbroken = FALSE
    /\ issued = <<>>
    /\ log = <<>>
    /\ visited = <<>>
    /\ nativeCalls = 0
    /\ pendingFail = -1
    /\ owed = -1

Threads == {1, 2}

\* No thread is running: the state of the other variables while the host
\* drives the bridge from a single thread.
ConcIdle ==
    /\ thr = [t \in Threads |-> [pc |-> "none"]]
    /\ stackMem = [t \in Threads |-> NoCallback]
    /\ cblog = [c \in Callbacks |-> <<>>]

(***************************************************************************)
(* The ABI introspector.                                                   *)
(*                                                                         *)
(* A std::string is a sequence of the pieces it is concatenated from: the  *)
(* string literals of the source, and the characters std::to_string        *)
(* produces.                                                               *)
(***************************************************************************)
Providers == {"ljposix.cpp", "ljclang_support.cpp"}

\* The type names ljclang_getTypeDefs of ljposix.cpp lists, in source order.
TypeList_posix ==
    <<"time_t", "blkcnt_t", "blksize_t", "clock_t", "clockid_t", "dev_t", "fsblkcnt_t",
      "fsfilcnt_t", "gid_t", "id_t", "ino_t", "mode_t", "nlink_t", "off_t", "pid_t",
      "ssize_t", "suseconds_t", "uid_t", "nfds_t", "sigset_t", "fd_set", "sa_family_t",
      "socklen_t">>

\* The type names ljclang_getTypeDefs of ljclang_support.cpp lists
\* (LJCLANG_USE_POSIX is 1), in source order.
TypeList_support ==
    <<"time_t", "blkcnt_t", "blksize_t", "clock_t", "clockid_t", "dev_t", "fsblkcnt_t",
      "fsfilcnt_t", "gid_t", "id_t", "ino_t", "mode_t", "nlink_t", "off_t", "pid_t",
      "ssize_t", "suseconds_t", "timer_t", "uid_t", "nfds_t", "sigset_t">>

TypeList(provider) == IF provider = "ljposix.cpp" THEN TypeList_posix ELSE TypeList_support

SeqRange(q) == {q[i] : i \in 1..Len(q)}

TypeNames == SeqRange(TypeList_posix) \cup SeqRange(TypeList_support)

\* The types a listed name may be on a target.
IntTypes == {"int", "long", "long long", "unsigned", "unsigned long",
             "unsigned long long", "unsigned short"}
OpaqueTypeOf == [sigset_t |-> "struct sigset_t", fd_set |-> "struct fd_set",
                 timer_t |-> "void *"]
IntegralNames == TypeNames \ DOMAIN OpaqueTypeOf

\* std::to_string of a size_t.
Digit(d) == <<"0", "1", "2", "3", "4", "5", "6", "7", "8", "9">>[d + 1]

RECURSIVE to_string(_)
to_string(n) == IF n < 10 THEN <<Digit(n)>> ELSE to_string(n \div 10) \o <<Digit(n % 10)>>

NoTypeString == <<>>

\* TypeString<sigset_t>::structDef
StructDef_sigset(lay) ==
    <<"struct { uint8_t bytes_[">> \o to_string(lay.sigset.size) \o <<"]; } ">>
    \o <<"__attribute__((aligned(">> \o to_string(lay.sigset.align) \o <<")))">>

\* TypeString<fd_set>::structDef
StructDef_fd_set(lay) ==
    <<"struct { long int bytes_[">> \o to_string(lay.fdset.size \div lay.long.size)
    \o <<"]; }">>

\* The static_asserts on fd_set, with the size check missing
StaticAsserts_fd_set_AlignOnly(lay) == lay.fdset.align = lay.long.align

\* static_assert(alignof(fd_set) == alignof(fd_mask));
\* static_assert(sizeof(fd_set) % sizeof(fd_mask) == 0);
StaticAsserts_fd_set(lay) ==
    /\ lay.fdset.align = lay.long.align
    /\ lay.fdset.size % lay.long.size = 0

\* std::is_same<int64_t, long int>::value and std::is_same<uint64_t, unsigned long>::value
LongIntIsInt64(plat) == plat.int64 = "long"
ULongIsUInt64(plat) == plat.uint64 = "unsigned long"

\* std::conditional_t<LongIntIsInt64, DummyType1, long int> and its unsigned peer
LongInt(plat) == IF LongIntIsInt64(plat) THEN "DummyType1" ELSE "long"
ULong(plat) == IF ULongIsUInt64(plat) THEN "DummyType2" ELSE "unsigned long"

\* TypeString<T>::value of ljposix.cpp for the type T; NoTypeString where only
\* the primary template, which has no member <value>, applies.
TypeString_posix(T, plat, lay) ==
    IF T = "int" THEN <<"int32_t">>
    ELSE IF T = plat.int64 THEN <<"int64_t">>
    ELSE IF T = "unsigned" THEN <<"uint32_t">>
    ELSE IF T = plat.uint64 THEN <<"uint64_t">>
    ELSE IF T = "unsigned short" THEN <<"unsigned short">>
    ELSE IF T = LongInt(plat) THEN <<"long int">>
    ELSE IF T = ULong(plat) THEN <<"unsigned long">>
    ELSE IF T = "struct sigset_t" THEN StructDef_sigset(lay)
    ELSE IF T = "struct fd_set" THEN StructDef_fd_set(lay)
    ELSE NoTypeString

\* TypeString<T>::value of ljclang_support.cpp.
TypeString_support(T, plat, lay) ==
    IF T = "int" THEN <<"int32_t">>
    ELSE IF T = plat.int64 THEN <<"int64_t">>
    ELSE IF T = "unsigned" THEN <<"uint32_t">>
    ELSE IF T = plat.uint64 THEN <<"uint64_t">>
    ELSE IF T = LongInt(plat) THEN <<"long int">>
    ELSE NoTypeString

TypeString(provider, T, plat, lay) ==
    IF provider = "ljposix.cpp" THEN TypeString_posix(T, plat, lay)
    ELSE TypeString_support(T, plat, lay)

\* #define TypeDef(typeName) of ljposix.cpp
TypeDef_posix(typeName, plat, lay) ==
    <<"typedef ">> \o TypeString_posix(plat.typeOf[typeName], plat, lay)
    \o <<" ", typeName, ";">>

\* #define TypeDef(typeName) of ljclang_support.cpp
TypeDef_support(typeName, plat, lay) ==
    <<"typedef ">> \o TypeString_support(plat.typeOf["time_t"], plat, lay)
    \o <<" ", typeName, ";">>

TypeDef(provider, typeName, plat, lay) ==
    IF provider = "ljposix.cpp" THEN TypeDef_posix(typeName, plat, lay)
    ELSE TypeDef_support(typeName, plat, lay)

\* TypeDef(time_t) + TypeDef(blkcnt_t) + ...
RECURSIVE ConcatTypeDefs(_, _, _, _, _)
ConcatTypeDefs(provider, names, i, plat, lay) ==
    IF i > Len(names) THEN <<>>
    ELSE TypeDef(provider, names[i], plat, lay)
         \o ConcatTypeDefs(provider, names, i + 1, plat, lay)

\* The translation unit compiles: every TypeString<...>::value it names exists
\* and its static_asserts on fd_set hold.
Compiles(provider, plat, lay) ==
    IF provider = "ljposix.cpp"
    THEN /\ \A n \in SeqRange(TypeList_posix) :
              TypeString_posix(plat.typeOf[n], plat, lay) # NoTypeString
         /\ StaticAsserts_fd_set(lay)
    ELSE TypeString_support(plat.typeOf["time_t"], plat, lay) # NoTypeString

\* ljclang_getTypeDefs(): the static <s> is constructed by the first call.
ljclang_getTypeDefs(provider) ==
    /\ Compiles(provider, platform, layout)
    /\ tdRet.calls < MaxCalls
    /\ LET text == IF tdBuilt[provider] THEN tdText[provider]
                   ELSE ConcatTypeDefs(provider, TypeList(provider), 1, platform, layout)
       IN /\ tdBuilt' = [tdBuilt EXCEPT ![provider] = TRUE]
          /\ tdText' = [tdText EXCEPT ![provider] = text]
          /\ tdRet' = [provider |-> provider, text |-> text, calls |-> tdRet.calls + 1]
    /\ UNCHANGED <<platform, layout, posixBuild, declared>>

(***************************************************************************)
(* Targets.                                                                *)
(***************************************************************************)
\* A target where long is 64 bits wide (LP64, glibc).
LinuxTypes ==
    [n \in TypeNames |->
        IF n \in DOMAIN OpaqueTypeOf THEN OpaqueTypeOf[n]
        ELSE IF n \in {"clockid_t", "pid_t"} THEN "int"
        ELSE IF n \in {"gid_t", "id_t", "mode_t", "uid_t", "socklen_t"} THEN "unsigned"
        ELSE IF n \in {"dev_t", "fsblkcnt_t", "fsfilcnt_t", "ino_t", "nlink_t", "nfds_t"}
             THEN "unsigned long"
        ELSE IF n = "sa_family_t" THEN "unsigned short"
        ELSE "long"]

LinuxPlatform == [int64 |-> "long", uint64 |-> "unsigned long", typeOf |-> LinuxTypes]

SmallLayout == [sigset |-> [size |-> 8, align |-> 8], fdset |-> [size |-> 8, align |-> 8],
                long |-> [size |-> 8, align |-> 8]]

\* Targets: every listed integral name is the type d, but for one name, which is u.
Platforms ==
    {[int64 |-> i, uint64 |-> u64,
      typeOf |-> [n \in TypeNames |->
                    IF n \in DOMAIN OpaqueTypeOf THEN OpaqueTypeOf[n]
                    ELSE IF n = k THEN u ELSE d]] :
        i \in {"long", "long long"}, u64 \in {"unsigned long", "unsigned long long"},
        d \in IntTypes, u \in IntTypes, k \in IntegralNames}
    \cup {LinuxPlatform}

Alignments == {1, 2, 4, 8}

\* sizeof(T) is a multiple of alignof(T) for every object type T.
ObjectLayouts ==
    {[size |-> sz, align |-> al] : sz \in 1..MaxSize, al \in Alignments} 

RealLayouts == {l \in ObjectLayouts : l.size % l.align = 0}

LongLayouts == {l \in RealLayouts : l.size \in {4, 8} /\ l.align \in {4, 8}}

Layouts == [sigset : RealLayouts, fdset : RealLayouts, long : LongLayouts]

AbiBuildIdle ==
    /\ tdBuilt = [p \in Providers |-> FALSE]
    /\ tdText = [p \in Providers |-> <<>>]
    /\ tdRet = [provider |-> "none", text |-> <<>>, calls |-> 0]
    /\ posixBuild = "none"
    /\ declared = [sigset |-> [size |-> 0, align |-> 0], fdset |-> [size |-> 0, align |-> 0]]

AbiIdle ==
    /\ platform = LinuxPlatform
    /\ layout = SmallLayout
    /\ AbiBuildIdle

GetTypeDefs ==
    \E provider \in Providers :
        ljclang_getTypeDefs(provider) /\ UNCHANGED <<bridgeVars, concVars>>

InitTypeDefs ==
    /\ InitBridge
    /\ ConcIdle
    /\ platform \in Platforms
    /\ layout = SmallLayout
    /\ AbiBuildIdle

NextTypeDefs == GetTypeDefs

SpecTypeDefs == InitTypeDefs /\ [][NextTypeDefs]_vars

(***************************************************************************)
(* The host reads the emitted text: its declaration parser splits the      *)
(* statements, reads the numbers back and lays the structs out by the      *)
(* rules of the C ABI.                                                     *)
(***************************************************************************)
\* The statements of the text: the pieces before each ";".
Semicolons(text) == {i \in 1..Len(text) : text[i] = ";"}

SemicolonAt(text, k) ==
    CHOOSE i \in Semicolons(text) : Cardinality({j \in Semicolons(text) : j < i}) = k - 1

Statements(text) ==
    [k \in 1..Cardinality(Semicolons(text)) |->
        SubSeq(text, IF k = 1 THEN 1 ELSE SemicolonAt(text, k - 1) + 1,
               SemicolonAt(text, k) - 1)]

\* What the statement declaring <name> spells between "typedef " and " <name>".
SpellingOf(text, name) ==
    LET sts == Statements(text)
        i == CHOOSE j \in 1..Len(sts) : sts[j][Len(sts[j])] = name
    IN SubSeq(sts[i], 2, Len(sts[i]) - 2)

IsDigit(c) == \E d \in 0..9 : Digit(d) = c

DigitValue(c) == CHOOSE d \in 0..9 : Digit(d) = c

RECURSIVE ParseDigits(_, _, _)
ParseDigits(text, i, acc) ==
    IF i <= Len(text) /\ IsDigit(text[i])
    THEN ParseDigits(text, i + 1, 10 * acc + DigitValue(text[i]))
    ELSE [value |-> acc, next |-> i]

ParseStructDef(text) ==
    LET cnt == ParseDigits(text, 2, 0)
        attr == cnt.next + 1
    IN [elem |-> IF text[1] = "struct { uint8_t bytes_[" THEN "uint8_t" ELSE "long int",
        count |-> cnt.value,
        aligned |-> IF attr <= Len(text) /\ text[attr] = "__attribute__((aligned("
                    THEN ParseDigits(text, attr + 1, 0).value
                    ELSE 0]

RoundUp(n, a) == ((n + a - 1) \div a) * a

Max(a, b) == IF a >= b THEN a ELSE b

\* Size and alignment of struct { elem bytes_[count]; } with the aligned attribute.
StructLayout(def, lay) ==
    LET esize == IF def.elem = "uint8_t" THEN 1 ELSE lay.long.size
        ealign == IF def.elem = "uint8_t" THEN 1 ELSE lay.long.align
        al == Max(ealign, def.aligned)
    IN [size |-> RoundUp(def.count * esize, al), align |-> al]

\* The native build of ljposix.cpp on the target.
CompilePosix ==
    /\ posixBuild = "none"
    /\ posixBuild' = IF Compiles("ljposix.cpp", platform, layout) THEN "ok" ELSE "failed"
    /\ UNCHANGED <<platform, layout, tdBuilt, tdText, tdRet, declared>>
    /\ UNCHANGED <<bridgeVars, concVars>>

GetTypeDefsPosix ==
    /\ posixBuild = "ok"
    /\ ljclang_getTypeDefs("ljposix.cpp")
    /\ UNCHANGED <<bridgeVars, concVars>>

\* The host declares the types from the text it was given.
HostDeclares ==
    /\ tdRet.provider = "ljposix.cpp"
    /\ declared.sigset.size = 0
    /\ declared' =
         [sigset |-> StructLayout(ParseStructDef(SpellingOf(tdRet.text, "sigset_t")), layout),
          fdset |-> StructLayout(ParseStructDef(SpellingOf(tdRet.text, "fd_set")), layout)]
    /\ UNCHANGED <<platform, layout, tdBuilt, tdText, tdRet, posixBuild>>
    /\ UNCHANGED <<bridgeVars, concVars>>

InitLayout ==
    /\ InitBridge
    /\ ConcIdle
    /\ platform = LinuxPlatform
    /\ layout \in Layouts
    /\ AbiBuildIdle

NextLayout == CompilePosix \/ GetTypeDefsPosix \/ HostDeclares

SpecLayout == InitLayout /\ [][NextLayout]_vars

(***************************************************************************)
(* Specifications of the visitor bridge.                                   *)
(***************************************************************************)
notBridgeVars == <<concVars, abiVars>>

Register ==
    \E visitor \in Callbacks : ljclang_regCursorVisitor(visitor) /\ UNCHANGED notBridgeVars

VisitChildren ==
    \E t \in Trees, visitoridx \in HandleInputs :
        ljclang_visitChildren(t, visitoridx) /\ UNCHANGED notBridgeVars

VisitChildrenWith ==
    \E t \in Trees, visitor \in Callbacks :
        ljclang_visitChildrenWith(t, visitor) /\ UNCHANGED notBridgeVars

NativeVisit == VisitNode /\ UNCHANGED notBridgeVars

NativeReturn == VisitReturn /\ UNCHANGED notBridgeVars

CallbackRegisters ==
    \E visitor \in Callbacks : ReentrantRegister(visitor) /\ UNCHANGED notBridgeVars

NextBridge == Register \/ VisitChildren \/ VisitChildrenWith \/ NativeVisit \/ NativeReturn

Init == InitBridge /\ ConcIdle /\ AbiIdle

Next == NextBridge

\* The host serialises its calls; no callback calls back into the registry.
Spec == Init /\ [][Next]_vars

\* As Spec, and callbacks may register visitors during a traversal.
NextReentrant == NextBridge \/ CallbackRegisters

SpecReentrant == Init /\ [][NextReentrant]_vars

(***************************************************************************)
(* Two concurrent calls of ljclang_visitChildrenWith.  Thread t traverses  *)
(* its own tree with its own callback t; a host callback answers by its    *)
(* policy: pol.r at node pol.at, Recurse elsewhere.                        *)
(***************************************************************************)
PolicyRet(pol, n) == IF n = pol.at THEN pol.r ELSE "Recurse"

Policies(t) == [at : 0..Len(t), r : {"Break", "Continue"}]

\* &visitor: the address of the parameter in the calling thread's own stack,
\* here in one slot shared by all calls.
FrameAddr_Static(t) == 1

\* &visitor: the address of the parameter in the calling thread's own stack.
FrameAddr(t) == t

\* *static_cast<LJCX_CursorVisitor *>(client_data)
LoadFrame(a) == IF stackMem[a] # NoCallback THEN {stackMem[a]} ELSE Callbacks \cup {Crash}

InitConc ==
    /\ thr \in [Threads -> UNION {[pc : {"ready"}, tree : {t}, policy : Policies(t),
                                   todo : {<<>>}, wasbroken : {FALSE}, ret : {0},
                                   ctx : {NULL}, log : {<<>>}] : t \in Trees}]
    /\ stackMem = [t \in Threads |-> NoCallback]
    /\ cblog = [c \in Callbacks |-> <<>>]

\* Thread t enters ljclang_visitChildrenWith(parent, visitor) with visitor = t.
ConcCall(t) ==
    /\ thr[t].pc = "ready"
    /\ stackMem' = [stackMem EXCEPT ![FrameAddr(t)] = t]
    /\ thr' = [thr EXCEPT ![t].pc = "visit",
                          ![t].ctx = FrameAddr(t),
                          ![t].todo = Children(thr[t].tree, Root)]
    /\ UNCHANGED cblog

\* The native traversal of thread t hands its next node to the trampoline.
ConcVisit(t) ==
    /\ thr[t].pc = "visit"
    /\ thr[t].todo # <<>>
    /\ LET n == Head(thr[t].todo) IN
       \E k \in Kinds, v \in LoadFrame(thr[t].ctx) :
         IF v = Crash
         THEN /\ thr' = [thr EXCEPT ![t].pc = "crashed"]
              /\ UNCHANGED cblog
         ELSE LET hostRet == PolicyRet(thr[v].policy, n)
                  r == ourCursorVisitor_cpp(k, v, hostRet)
              IN /\ cblog' = [cblog EXCEPT ![r.called] = Append(@, [tree |-> t, node |-> n])]
                 /\ thr' = [thr EXCEPT
                      ![t].log = Append(@, [cb |-> r.called, node |-> n,
                                            parent |-> thr[t].tree[n], ret |-> hostRet]),
                      ![t].wasbroken = (r.result = "Break"),
                      ![t].todo = IF r.result = "Break" THEN <<>>
                                  ELSE IF r.result = "Recurse"
                                       THEN Children(thr[t].tree, n) \o Tail(@)
                                       ELSE Tail(@)]
    /\ UNCHANGED stackMem

\* clang_visitChildren returns in thread t; the call returns and its frame dies.
ConcReturn(t) ==
    /\ thr[t].pc = "visit"
    /\ thr[t].todo = <<>>
    /\ thr' = [thr EXCEPT ![t].pc = "done", ![t].ret = VisitResult(thr[t].wasbroken)]
    /\ stackMem' = [stackMem EXCEPT ![thr[t].ctx] = NoCallback]
    /\ UNCHANGED cblog

ThreadCalls == \E t \in Threads : ConcCall(t) /\ UNCHANGED <<bridgeVars, abiVars>>

ThreadVisits == \E t \in Threads : ConcVisit(t) /\ UNCHANGED <<bridgeVars, abiVars>>

ThreadReturns == \E t \in Threads : ConcReturn(t) /\ UNCHANGED <<bridgeVars, abiVars>>

NextConc == ThreadCalls \/ ThreadVisits \/ ThreadReturns

InitSpecConc == InitBridge /\ InitConc /\ AbiIdle

SpecConc == InitSpecConc /\ [][NextConc]_vars

(***************************************************************************)
(* Observations shared by the claims about the visitor bridge.             *)
(***************************************************************************)
IssuedHandles == {issued[i].handle : i \in 1..Len(issued)}

\* The callbacks registered under handle h.
IssuedFor(h) == {issued[i].visitor : i \in {j \in 1..Len(issued) : issued[j].handle = h}}

LoggedNodes == {log[i].node : i \in 1..Len(log)}

VisitedNodes == {visited[i] : i \in 1..Len(visited)}

\* A dispatch that reached the native traversal.
Traversing == op \in {"visitChildren", "visitChildrenWith"} /\ nativeCalls = 1

TraversalDone == Traversing /\ pc = "idle"

CallbackAborted == \E i \in 1..Len(log) : log[i].ret = "Break"

(***************************************************************************)
(* C1: the handles returned by successful registrations are pairwise       *)
(* distinct, and a handle-based dispatch invokes only the callback that    *)
(* was registered under the dispatched handle.                             *)
(***************************************************************************)
C1_DistinctHandlesOwnCallback ==
    /\ \A i, j \in 1..Len(issued) : i # j => issued[i].handle # issued[j].handle
    /\ (op = "visitChildren" /\ nativeCalls = 1) =>
          \A i \in 1..Len(log) : IssuedFor(arg) = {log[i].cb}

C1_Witness ==
    /\ Len(issued) = 2
    /\ issued[1].visitor # issued[2].visitor
    /\ op = "visitChildren"
    /\ arg = issued[2].handle
    /\ pc = "idle"
    /\ Len(log) >= 4
    /\ owed = 1

(***************************************************************************)
(* C2: a dispatch on a handle that was never issued (negative, or at least *)
(* the number of registered visitors) returns -1 without calling the       *)
(* native traversal or any callback; a dispatch on an issued handle calls  *)
(* the native traversal and returns 0 or 1.                                *)
(***************************************************************************)
C2_InvalidHandleRejected ==
    /\ \A h \in HandleInputs : (h \notin IssuedHandles) <=> (h < 0 \/ h >= g_numVisitors)
    /\ op = "visitChildren" =>
         IF arg \notin IssuedHandles
         THEN ret = -1 /\ pc = "idle" /\ nativeCalls = 0 /\ log = <<>> /\ visited = <<>>
         ELSE nativeCalls = 1 /\ (pc = "idle" => ret \in {0, 1})

C2_Witness ==
    /\ op = "visitChildren"
    /\ arg = 999
    /\ g_numVisitors = MaxVisitors
    /\ ret = -1
    /\ nativeCalls = 0

(***************************************************************************)
(* C3: a registration whose realloc fails returns -1 and changes neither   *)
(* the visitor count, nor the table pointer, nor the table; every issued   *)
(* handle still addresses its own callback, and the next successful        *)
(* registration returns the handle the failed call would have returned.    *)
(***************************************************************************)
EntriesIntact ==
    \A i \in 1..Len(issued) :
        /\ g_cursorVisitors # NULL
        /\ heap[g_cursorVisitors].live
        /\ issued[i].handle + 1 <= Len(heap[g_cursorVisitors].data)
        /\ heap[g_cursorVisitors].data[issued[i].handle + 1] = issued[i].visitor

C3_FailedGrowthLeavesRegistry ==
    /\ [](EntriesIntact /\ (op = "reg" /\ ret >= 0 /\ owed # -1 => ret = owed))
    /\ [][(op' = "reg" /\ ret' = -1) =>
            /\ g_numVisitors' = g_numVisitors
            /\ g_cursorVisitors' = g_cursorVisitors
            /\ heap' = heap
            /\ issued' = issued]_vars

C3_Witness ==
    /\ op = "reg"
    /\ Len(issued) = 2
    /\ owed = 1
    /\ ret = 1

(***************************************************************************)
(* C4: a traversal dispatch returns 1 (Interrupted) exactly when some      *)
(* callback invocation of that traversal returned Break, else 0.           *)
(***************************************************************************)
C4_InterruptedIffCallbackAborted ==
    TraversalDone => (ret = 1 <=> CallbackAborted) /\ ret \in {0, 1}

(***************************************************************************)
(* C5: in a traversal whose callback always returns Recurse, the callback  *)
(* is invoked exactly once for every node the native traversal visits,     *)
(* with that node's structural parent.                                     *)
(***************************************************************************)
C5_InvokedOncePerVisitedNode ==
    (Traversing /\ \A i \in 1..Len(log) : log[i].ret = "Recurse") =>
        /\ Len(log) = Len(visited)
        /\ \A i \in 1..Len(log) :
             /\ log[i].node = visited[i]
             /\ log[i].parent = tree[log[i].node]
        /\ \A i, j \in 1..Len(log) : i # j => log[i].node # log[j].node

(***************************************************************************)
(* C6: after a callback returned Break there is no further callback        *)
(* invocation and the dispatch returns 1; after a callback returned        *)
(* Continue for a node, no descendant of that node is handed to a          *)
(* callback, while its later siblings are still visited.                   *)
(***************************************************************************)
LaterSiblings(t, n) == {m \in 1..Len(t) : t[m] = t[n] /\ m > n}

C6_AbortStopsSkipPrunes ==
    Traversing =>
        /\ \A i \in 1..Len(log) :
             log[i].ret = "Break" => i = Len(log) /\ (pc = "idle" => ret = 1)
        /\ \A i, j \in 1..Len(log) :
             log[i].ret = "Continue" => ~IsDescendant(tree, log[j].node, log[i].node)
        /\ (pc = "idle" /\ ~CallbackAborted) =>
             \A i \in 1..Len(log) :
                log[i].ret = "Continue" => LaterSiblings(tree, log[i].node) \subseteq VisitedNodes

(***************************************************************************)
(* C10: throughout a handle-based traversal the context pointer refers to  *)
(* a live table entry holding the callback registered under the            *)
(* dispatched handle, also after a callback of that traversal registered   *)
(* a visitor; every callback invoked is the one selected at dispatch.      *)
(***************************************************************************)
C10_ContextEntryStaysLive ==
    (op = "visitChildren" /\ nativeCalls = 1 /\ pc # "idle") =>
        /\ pc = "visit"
        /\ heap[ctx.addr].live
        /\ ctx.idx + 1 <= Len(heap[ctx.addr].data)
        /\ IssuedFor(arg) = {heap[ctx.addr].data[ctx.idx + 1]}
        /\ \A i \in 1..Len(log) : IssuedFor(arg) = {log[i].cb}

(***************************************************************************)
(* C9: two concurrent ljclang_visitChildrenWith calls on independent trees *)
(* with independent callbacks: each callback is invoked only with nodes of *)
(* its own tree, each call sees the invocation sequence and the result it  *)
(* has when run alone, and the slot its context pointer refers to holds    *)
(* its visitor for the whole call.                                         *)
(***************************************************************************)
\* The invocation sequence and the result of one call run alone.
RECURSIVE Alone(_, _, _, _)
Alone(t, work, pol, cb) ==
    IF work = <<>> THEN [log |-> <<>>, broken |-> FALSE]
    ELSE LET n == Head(work)
             r == PolicyRet(pol, n)
             e == [cb |-> cb, node |-> n, parent |-> t[n], ret |-> r]
         IN IF r = "Break" THEN [log |-> <<e>>, broken |-> TRUE]
            ELSE LET rest == Alone(t, (IF r = "Recurse" THEN Children(t, n) ELSE <<>>)
                                        \o Tail(work), pol, cb)
                 IN [log |-> <<e>> \o rest.log, broken |-> rest.broken]

C9_ConcurrentCallsIndependent ==
    /\ \A c \in Callbacks : \A i \in 1..Len(cblog[c]) : cblog[c][i].tree = c
    /\ \A t \in Threads :
         /\ thr[t].pc \in {"ready", "visit", "done"}
         /\ thr[t].pc = "visit" => stackMem[thr[t].ctx] = t
         /\ thr[t].pc = "done" =>
              LET alone == Alone(thr[t].tree, Children(thr[t].tree, Root), thr[t].policy, t)
              IN thr[t].log = alone.log /\ thr[t].ret = (IF alone.broken THEN 1 ELSE 0)

C9_Witness ==
    /\ thr[1].pc = "done" /\ thr[2].pc = "done"
    /\ thr[1].ret = 1 /\ thr[2].ret = 0
    /\ Len(cblog[1]) >= 2 /\ Len(cblog[2]) >= 4
    /\ thr[1].tree # thr[2].tree

(***************************************************************************)
(* C7: the string ljclang_getTypeDefs returns holds exactly one typedef    *)
(* statement per listed type name, in source order, and the statement for  *)
(* T spells the TypeString of T itself, for both providers.                *)
(***************************************************************************)
C7_EachTypedefSpellsItsOwnType ==
    tdRet.provider # "none" =>
        LET names == TypeList(tdRet.provider)
            sts == Statements(tdRet.text)
        IN /\ Len(sts) = Len(names)
           /\ tdRet.text[Len(tdRet.text)] = ";"
           /\ \A i \in 1..Len(names) :
                LET own == TypeString(tdRet.provider, platform.typeOf[names[i]],
                                      platform, layout)
                IN /\ Len(sts[i]) >= 3
                   /\ sts[i][1] = "typedef "
                   /\ sts[i][Len(sts[i])] = names[i]
                   /\ own # NoTypeString => sts[i] = <<"typedef ">> \o own \o <<" ", names[i]>>

(***************************************************************************)
(* C8: for sigset_t and fd_set, the struct declared in the emitted text    *)
(* has exactly the size and the alignment of the real type on every target *)
(* whose build of ljposix.cpp succeeds.                                    *)
(***************************************************************************)
C8_OpaqueLayoutExact ==
    declared.sigset.size # 0 =>
        /\ posixBuild = "ok"
        /\ declared.sigset = layout.sigset
        /\ declared.fdset = layout.fdset

C8_Witness ==
    /\ declared.sigset = [size |-> 12, align |-> 4]
    /\ declared.fdset = [size |-> 16, align |-> 4]
    /\ layout.long = [size |-> 8, align |-> 4]

====
